---- MODULE Spec2Model ----
(***************************************************************************)
(* A model of src/main.py: the fuel-price pipeline of the repository.      *)
(*                                                                         *)
(*   get_coordinate       the fixed-point coordinate decoder               *)
(*   get_name_station     one remote name lookup                           *)
(*   parse_data           the thread pool of lookups, then the per-record  *)
(*                        assembly loop                                    *)
(*   create_json_heatmap  the forward-filled daily price arrays            *)
(*                                                                         *)
(* Python strings are modelled as sequences of one-character strings, so   *)
(* that split, slicing and the number parsers are computed the way the     *)
(* interpreter computes them.  Python's None is the value NoneVal; an      *)
(* exception is the name of its class.                                     *)
(***************************************************************************)
EXTENDS Integers, Sequences, FiniteSets, TLC

VARIABLES
    \* get_coordinate (CoordSpec)
    angle, number_len, coord,
    \* create_json_heatmap (HeatSpec)
    gas_price_history, today, fuel_order, carburants,
    \* the thread pool of parse_data (PoolSpec, FairPoolSpec)
    pool_ids, futures, responses, pool_names, pool_pc,
    \* parse_data (Spec)
    doc, pc, station_ids, station_names, idx, always_open, gas_stations,
    count, raised

coordVars == <<angle, number_len, coord>>
heatVars  == <<gas_price_history, today, fuel_order, carburants>>
poolVars  == <<pool_ids, futures, responses, pool_names, pool_pc>>
parseVars == <<doc, pc, station_ids, station_names, idx, always_open,
               gas_stations, count, raised>>
vars == <<coordVars, heatVars, poolVars, parseVars>>

-----------------------------------------------------------------------------
(* Python values.  Every value carries its type in the field k, so that
   values of different types can be compared. *)

NoneVal == [k |-> "None"]
Unbound == [k |-> "unbound"]

\* a str: the sequence of its characters
Str(s) == [k |-> "str", s |-> s]
\* a float: (-1)^neg * mant / 10^scale, mant without trailing zeros past the point
Float(neg, mant, scale) == [k |-> "float", neg |-> neg, mant |-> mant, scale |-> scale]
\* an int
Int_(n) == [k |-> "int", n |-> n]
\* a raised exception
Exc(name) == [k |-> "exc", name |-> name]

ValueError        == Exc("ValueError")
AttributeError    == Exc("AttributeError")
TypeError         == Exc("TypeError")
UnboundLocalError == Exc("UnboundLocalError")

IsError(v) == v.k = "exc"
IsStr(v)   == v.k = "str"

Min(a, b) == IF a <= b THEN a ELSE b

-----------------------------------------------------------------------------
(* Strings *)

DigitChars == {"0", "1", "2", "3", "4", "5", "6", "7", "8", "9"}

DigitVal(c) ==
    CASE c = "0" -> 0 [] c = "1" -> 1 [] c = "2" -> 2 [] c = "3" -> 3
      [] c = "4" -> 4 [] c = "5" -> 5 [] c = "6" -> 6 [] c = "7" -> 7
      [] c = "8" -> 8 [] c = "9" -> 9

IsDigits(s) == \A k \in 1..Len(s) : s[k] \in DigitChars

\* s[:n]
Take(s, n) == SubSeq(s, 1, Min(n, Len(s)))
\* s[n:]
Drop(s, n) == SubSeq(s, Min(n, Len(s)) + 1, Len(s))

\* The index of the first c in s, or 0.
IndexOf(s, c) ==
    IF \E k \in 1..Len(s) : s[k] = c
    THEN CHOOSE k \in 1..Len(s) : s[k] = c /\ \A j \in 1..(k - 1) : s[j] # c
    ELSE 0

\* s.split(c)[0]
SplitFirst(s, c) == IF IndexOf(s, c) = 0 THEN s ELSE SubSeq(s, 1, IndexOf(s, c) - 1)
\* the rest of s after its first c (empty when there is none)
SplitRest(s, c) == IF IndexOf(s, c) = 0 THEN <<>> ELSE SubSeq(s, IndexOf(s, c) + 1, Len(s))

RECURSIVE LStrip(_)
LStrip(s) == IF s # <<>> /\ Head(s) = " " THEN LStrip(Tail(s)) ELSE s

RECURSIVE RStrip(_)
RStrip(s) ==
    IF s # <<>> /\ s[Len(s)] = " " THEN RStrip(SubSeq(s, 1, Len(s) - 1)) ELSE s

\* s.strip()
Strip(s) == RStrip(LStrip(s))

RECURSIVE StripZeros(_)
\* s without its trailing "0" characters
StripZeros(s) ==
    IF s # <<>> /\ s[Len(s)] = "0" THEN StripZeros(SubSeq(s, 1, Len(s) - 1)) ELSE s

RECURSIVE NumVal(_)
\* The number a string of digits denotes (0 for the empty string).
NumVal(s) ==
    IF s = <<>> THEN 0
    ELSE 10 * NumVal(SubSeq(s, 1, Len(s) - 1)) + DigitVal(s[Len(s)])

HasSign(s) == s # <<>> /\ Head(s) \in {"+", "-"}
Unsigned(s) == IF HasSign(s) THEN Tail(s) ELSE s

\* float(x) of a str over digits, ".", signs, blanks and letters: blanks
\* around the number are ignored, one sign and one decimal point are allowed
\* and there must be a digit.
PyFloat(x) ==
    IF ~IsStr(x) THEN TypeError
    ELSE LET t  == Strip(x.s)
             u  == Unsigned(t)
             ip == SplitFirst(u, ".")
             fp == SplitRest(u, ".")
             fz == StripZeros(fp)
         IN  IF /\ IsDigits(ip)
                /\ IsDigits(fp)
                /\ Len(ip) + Len(fp) > 0
             THEN Float(HasSign(t) /\ Head(t) = "-", NumVal(ip \o fz), Len(fz))
             ELSE ValueError

\* int(x) of a str over the same alphabet.
PyInt(x) ==
    IF ~IsStr(x) THEN TypeError
    ELSE LET t == Strip(x.s)
             u == Unsigned(t)
         IN  IF IsDigits(u) /\ u # <<>>
             THEN Int_((IF HasSign(t) /\ Head(t) = "-" THEN -1 ELSE 1) * NumVal(u))
             ELSE ValueError

-----------------------------------------------------------------------------
(* get_coordinate *)

\* angle.split(".")[0], cut after number_len characters, a point put in the
\* cut, and the whole parsed by float.  None has no split.
get_coordinate(a, n) ==
    IF ~IsStr(a) THEN AttributeError
    ELSE LET p == SplitFirst(a.s, ".")
         IN  PyFloat(Str(Take(p, n) \o <<".">> \o Drop(p, n)))

-----------------------------------------------------------------------------
(* create_json_heatmap.  A calendar date "YYYY-MM-DD" is modelled by its day
   number: the code only tests dates for equality.  A price is a number of
   cents. *)

WindowLen == 3

\* [(now - timedelta(days=n)).strftime(...) for n in range(WindowLen, 0, -1)]
date_strings(now) == [k \in 1..WindowLen |-> now - (WindowLen + 1 - k)]

\* A faulty variant: it repeats the first value of the array instead of the last.
next_price_first(price_history, date_key, series) ==
    IF date_key \in DOMAIN price_history
    THEN price_history[date_key]
    ELSE IF series # <<>> THEN series[1] ELSE 0

\* The price appended for date_key: the stored one, else the array's last
\* element, else 0 when the array is still empty.
next_price(price_history, date_key, series) ==
    IF date_key \in DOMAIN price_history
    THEN price_history[date_key]
    ELSE IF series # <<>> THEN series[Len(series)] ELSE 0

RECURSIVE fill_series(_, _, _)
\* The loop over date_strings for one fuel type.
fill_series(price_history, dates, series) ==
    IF dates = <<>> THEN series
    ELSE fill_series(price_history, Tail(dates),
                     Append(series, next_price(price_history, Head(dates), series)))

-----------------------------------------------------------------------------
(* get_name_station, get_station_name and the thread pool *)

DigitSeq == <<"0", "1", "2", "3", "4", "5", "6", "7", "8", "9">>

RECURSIVE DigitsOf(_)
\* str(n) for n >= 0, as it appears in the request's URL
DigitsOf(n) == IF n < 10 THEN <<DigitSeq[n + 1]>> ELSE Append(DigitsOf(n \div 10), DigitSeq[(n % 10) + 1])

\* The name the remote service holds for a station id.
ServerName(id) == Str(<<"P", "d", "v">> \o DigitsOf(IF id < 0 THEN -id ELSE id))

\* A response: its status code and the texts its body wraps in
\* <strong>...</strong>, in the order they occur.
Response(status_code, strongs) ==
    [k |-> "response", status_code |-> status_code, strongs |-> strongs]

ConnectionError == Exc("ConnectionError")

\* What requests.get can give for the page of station id: a page with the
\* name, a page without the marker, an error status, or an exception.
ResponseKinds == {"page", "nomarker", "status", "exception"}

ServerResponse(id, kind) ==
    CASE kind = "page"      -> Response(200, <<ServerName(id), Str(<<"A", "u", "t", "r", "e">>)>>)
      [] kind = "nomarker"  -> Response(200, <<>>)
      [] kind = "status"    -> Response(500, <<ServerName(id)>>)
      [] kind = "exception" -> ConnectionError

ServerResponses(id) == {ServerResponse(id, kind) : kind \in ResponseKinds}

\* get_name_station after requests.get gave r: the first <strong> text of a
\* 200 response; None when there is none, on another status, and on any
\* exception.
get_name_station(r) ==
    IF IsError(r) THEN NoneVal
    ELSE IF r.status_code = 200
         THEN IF r.strongs # <<>> THEN r.strongs[1] ELSE NoneVal
         ELSE NoneVal

get_station_name(station_id, r) == <<station_id, get_name_station(r)>>

\* ThreadPoolExecutor(150): the number of worker threads.  The model runs a
\* pool of two, so that documents of three stations fill it.
max_workers == 2

Running(fs) == {k \in 1..Len(fs) : fs[k].state = "running"}
Pending(fs) == {k \in 1..Len(fs) : fs[k].state = "pending"}

\* A faulty variant: it starts a thread per work item.
worker_free_unbounded(fs) == TRUE

\* A worker thread is free to take the next work item.
worker_free(fs) == Cardinality(Running(fs)) < max_workers

\* A faulty variant: it returns at the first finished future.
all_done_first(fs) == fs = <<>> \/ \E k \in 1..Len(fs) : fs[k].state = "finished"

\* list(executor.map(...)) has every result, and the with block's
\* shutdown(wait=True) returns.
all_done(fs) == \A k \in 1..Len(fs) : fs[k].state = "finished"

\* A faulty variant: it yields the results last submitted first.
map_results_reversed(fs) == [k \in 1..Len(fs) |-> fs[Len(fs) + 1 - k].result]

\* executor.map yields the results in the order of the submitted ids.
map_results(fs) == [k \in 1..Len(fs) |-> fs[k].result]

-----------------------------------------------------------------------------
(* The document and the assembly loop of parse_data *)

\* An element with its text (None when it has none); find gives None for a
\* missing child.
Elem(text) == [k |-> "element", text |-> text]

\* A timestamp "YYYY-MM-DDTHH:MM:SS": the day number of its date and its
\* time of day in seconds.  Any other str fails to parse.
Stamp(day, secs) == [k |-> "stamp", day |-> day, secs |-> secs]

\* datetime.strptime(maj, "%Y-%m-%dT%H:%M:%S").strftime("%Y-%m-%d"): the date
\* of the timestamp, its time of day dropped.
update_date(maj) ==
    IF maj.k = "stamp" THEN [k |-> "date", day |-> maj.day]
    ELSE IF IsStr(maj) THEN ValueError
    ELSE TypeError

Time(hour, minute) == [k |-> "time", hour |-> hour, minute |-> minute]

\* datetime.strptime(x, "%H.%M").time(): one or two digits of hour up to 23,
\* a period, one or two digits of minute up to 59, and nothing else.
strptime_HM(x) ==
    IF ~IsStr(x) THEN TypeError
    ELSE LET h == SplitFirst(x.s, ".")
             m == SplitRest(x.s, ".")
         IN  IF /\ IndexOf(x.s, ".") # 0
                /\ Len(h) \in 1..2 /\ IsDigits(h) /\ NumVal(h) <= 23
                /\ Len(m) \in 1..2 /\ IsDigits(m) /\ NumVal(m) <= 59
             THEN Time(NumVal(h), NumVal(m))
             ELSE ValueError

HoursRange(hour_start, hour_end) ==
    [k |-> "HoursRange", hour_start |-> hour_start, hour_end |-> hour_end]

OpeningHours(days) == [k |-> "OpeningHours", days |-> days]

Bool(b) == [k |-> "bool", b |-> b]

\* maxx of parse_data
maxx == 9999999

\* [int(pdv.get("id")) for pdv in root][:maxx]: the ids, or the first
\* exception int raises.
RECURSIVE read_ids(_, _)
read_ids(root, acc) ==
    IF root = <<>> THEN [k |-> "list", ids |-> Take(acc, maxx)]
    ELSE LET v == PyInt(Head(root).id)
         IN  IF IsError(v) THEN v ELSE read_ids(Tail(root), Append(acc, v.n))

\* The try block of lines 62 to 72: the mandatory fields, or the exception
\* that makes the loop continue with the next record.
mandatory(pdv) ==
    IF pdv.adresse = NoneVal THEN AttributeError
    ELSE LET latitude  == get_coordinate(pdv.latitude, 2)
             longitude == get_coordinate(pdv.longitude, 1)
         IN  IF IsError(latitude) THEN latitude
             ELSE IF IsError(longitude) THEN longitude
             ELSE IF pdv.ville = NoneVal THEN AttributeError
             ELSE [k |-> "fields",
                   address |-> pdv.adresse.text,
                   latitude |-> latitude,
                   longitude |-> longitude,
                   postal_code |-> pdv.cp,
                   city |-> pdv.ville.text]

\* day.find("ouverture") is not None
has_opening(day) == day.ouverture

\* The body of the loop over the day elements: the pair (day_id, hours_range)
\* or the exception raised.
parse_day(day) ==
    LET day_id == PyInt(day.id)
    IN  IF IsError(day_id) THEN day_id
        ELSE IF day.ferme = Str(<<"1">>) \/ ~has_opening(day)
             THEN [k |-> "day", day_id |-> day_id.n, hours_range |-> NoneVal]
        ELSE IF day.horaire = NoneVal THEN AttributeError
        ELSE LET start_time == strptime_HM(day.horaire.ouverture)
                 end_time   == strptime_HM(day.horaire.fermeture)
             IN  IF IsError(start_time) THEN start_time
                 ELSE IF IsError(end_time) THEN end_time
                 ELSE [k |-> "day", day_id |-> day_id.n,
                       hours_range |-> HoursRange(start_time, end_time)]

\* d with d[key] = value
DictSet(d, key, value) ==
    [x \in DOMAIN d \cup {key} |-> IF x = key THEN value ELSE d[x]]

RECURSIVE parse_days(_, _)
\* The loop over the day elements: the dict days, or the exception raised.
parse_days(jours, days) ==
    IF jours = <<>> THEN [k |-> "dict", d |-> days]
    ELSE LET r == parse_day(Head(jours))
         IN  IF IsError(r) THEN r
             ELSE parse_days(Tail(jours), DictSet(days, r.day_id, r.hours_range))

RECURSIVE parse_prices(_, _)
\* The loop over the prix elements: gas_price_history, or the exception
\* raised.  An element without attributes is passed over.
parse_prices(prix, history) ==
    IF prix = <<>> THEN [k |-> "dict", d |-> history]
    ELSE LET e == Head(prix)
             price == PyFloat(e.valeur)
             date  == update_date(e.maj)
         IN  IF ~e.attrib THEN parse_prices(Tail(prix), history)
             ELSE IF IsError(price) THEN price
             ELSE IF IsError(date) THEN date
             ELSE parse_prices(Tail(prix),
                    DictSet(history, e.nom,
                            DictSet(IF e.nom \in DOMAIN history THEN history[e.nom] ELSE <<>>,
                                    date.day, price)))

\* A faulty variant: it takes the name of the next result not yet used by a retained
\* station, as a zip over the retained records would.
paired_retained(names, i, n) == names[n + 1]

\* zip(root, station_names): the result paired with record i, count records
\* having been retained before it.
paired(names, i, n) == names[i]

\* always_open as the record without an opening-hours block finds it: what
\* the last record with a block left, or unbound.
carried_flag(flag) == flag

\* One iteration of the loop of lines 61 to 126 on record pdv, paired with
\* the result pair, always_open being flag before it:
\*   dropped  the try block failed, the loop continues
\*   raised   an exception leaves parse_data
\*   station  the record's GasStation is appended
assemble(pdv, pair, flag) ==
    LET f == mandatory(pdv)
        h == pdv.horaires
        days == IF h = NoneVal THEN [k |-> "dict", d |-> <<>>] ELSE parse_days(h.jours, <<>>)
        flag2 == IF h = NoneVal THEN carried_flag(flag) ELSE Bool(h.automate)
        prices == parse_prices(pdv.prix, <<>>)
    IN  IF IsError(f) THEN [k |-> "dropped", always_open |-> flag]
        ELSE IF IsError(days) THEN [k |-> "raised", exc |-> days, always_open |-> flag2]
        ELSE IF flag2 = Unbound
             THEN [k |-> "raised", exc |-> UnboundLocalError, always_open |-> flag2]
        ELSE IF IsError(prices) THEN [k |-> "raised", exc |-> prices, always_open |-> flag2]
        ELSE [k |-> "station",
              always_open |-> flag2,
              station |->
                [id |-> pair[1],
                 name |-> pair[2],
                 address |-> f.address,
                 latitude |-> f.latitude,
                 longitude |-> f.longitude,
                 postal_code |-> f.postal_code,
                 city |-> f.city,
                 is_always_open |-> flag2.b,
                 opening_hours |-> IF h = NoneVal THEN NoneVal ELSE OpeningHours(days.d),
                 gas_price_history |-> prices.d]]

-----------------------------------------------------------------------------
(* CoordSpec: get_coordinate on every short string, and on the docstring's
   examples *)

MaxLen == 4

CoordAlphabet == {"0", "4", "6", ".", "-", " ", "a"}

RECURSIVE StringsUpTo(_, _)
StringsUpTo(A, n) ==
    IF n = 0 THEN {<<>>}
    ELSE LET shorter == StringsUpTo(A, n - 1)
         IN  shorter \cup {Append(s, c) : s \in {t \in shorter : Len(t) = n - 1}, c \in A}

DocExamples ==
    { <<"4", "6", "2", "0", "1", "0", "0">>,
      <<"5", "1", "9", "8", "0", "0">>,
      <<"4", "5", "8", "4", "8", "2", "9", ".", "0", "8", "5", "8", "5", "5", "6">> }

CoordInputs == StringsUpTo(CoordAlphabet, MaxLen) \cup DocExamples

\* parse_data decodes latitudes with 2 and longitudes with 1.
NumberLens == {1, 2}

CoordIdle == angle = NoneVal /\ number_len = 0 /\ coord = Unbound
HeatIdle  == gas_price_history = <<>> /\ today = 0 /\ fuel_order = <<>> /\ carburants = <<>>
PoolIdle  == pool_ids = <<>> /\ futures = <<>> /\ responses = <<>> /\ pool_names = <<>>
             /\ pool_pc = "idle"
ParseIdle == doc = <<>> /\ pc = "idle" /\ station_ids = <<>> /\ station_names = <<>>
             /\ idx = 0 /\ always_open = Unbound /\ gas_stations = <<>> /\ count = 0
             /\ raised = NoneVal

CoordInit ==
    /\ angle \in {Str(s) : s \in CoordInputs}
    /\ number_len \in NumberLens
    /\ coord = Unbound
    /\ HeatIdle /\ PoolIdle /\ ParseIdle

CallGetCoordinate ==
    /\ coord = Unbound
    /\ coord' = get_coordinate(angle, number_len)
    /\ UNCHANGED <<angle, number_len, heatVars, poolVars, parseVars>>

CoordNext == CallGetCoordinate

CoordSpec == CoordInit /\ [][CoordNext]_vars

-----------------------------------------------------------------------------
(* HeatSpec: create_json_heatmap on one station.  Its first fuel type has any
   price history over Dates; a second fuel type, when present, has one of a
   few. *)

Dates  == 0..WindowLen
Prices == {0, 1, 2}

\* The dicts date -> price with keys among D.
Histories(D) == UNION {[K -> Prices] : K \in SUBSET D}

OtherHistories == {[d \in {1} |-> 2], [d \in {0, WindowLen} |-> 1]}

\* The station's gas_price_history with its keys in insertion order.
HeatStations ==
    {<<[f \in {"Gazole"} |-> h], <<"Gazole">>>> : h \in Histories(Dates)}
    \cup {<<[f \in {"Gazole", "SP95"} |-> IF f = "Gazole" THEN h ELSE g], o>> :
            h \in Histories(Dates), g \in OtherHistories,
            o \in {<<"Gazole", "SP95">>, <<"SP95", "Gazole">>}}

HeatInit ==
    /\ \E st \in HeatStations : gas_price_history = st[1] /\ fuel_order = st[2]
    /\ today \in {WindowLen, WindowLen + 1}
    /\ carburants = <<>>
    /\ CoordIdle /\ PoolIdle /\ ParseIdle

\* One iteration of the loop over gas_price_history.items().
HeatFuel ==
    /\ fuel_order # <<>>
    /\ LET fuel_type == Head(fuel_order)
           series == fill_series(gas_price_history[fuel_type], date_strings(today), <<>>)
       IN  carburants' = [f \in DOMAIN carburants \cup {fuel_type} |->
                             IF f = fuel_type THEN series ELSE carburants[f]]
    /\ fuel_order' = Tail(fuel_order)
    /\ UNCHANGED <<gas_price_history, today, coordVars, poolVars, parseVars>>

HeatNext == HeatFuel

HeatSpec == HeatInit /\ [][HeatNext]_vars

HeatDone == fuel_order = <<>> /\ gas_price_history # <<>>

\* The window dates before position i that are keys of h.
EarlierKeys(h, W, i) == {j \in 1..(i - 1) : W[j] \in DOMAIN h}

Latest(S) == CHOOSE j \in S : \A m \in S : m <= j

\* What C2 says element i of the array is.
Expected(h, W, i) ==
    IF W[i] \in DOMAIN h THEN h[W[i]]
    ELSE IF EarlierKeys(h, W, i) # {} THEN h[W[Latest(EarlierKeys(h, W, i))]]
    ELSE 0

\* C2: every array create_json_heatmap builds has the window's length, and
\* its i-th element is the stored price of the i-th window date, else the
\* stored price of the latest earlier window date that has one, else 0; so
\* the history's dates outside the window have no influence.
C2_ForwardFill ==
    \A f \in DOMAIN carburants :
        /\ Len(carburants[f]) = WindowLen
        /\ \A i \in 1..WindowLen :
              carburants[f][i] = Expected(gas_price_history[f], date_strings(today), i)

\* A finished station with two fuel types, a leading gap although the
\* history has a date before the window, and a filled gap.
C2_Witness ==
    /\ HeatDone
    /\ DOMAIN carburants = {"Gazole", "SP95"}
    /\ today = WindowLen + 1
    /\ DOMAIN gas_price_history["Gazole"] = {0, 2}
    /\ gas_price_history["Gazole"][0] = 1
    /\ carburants["Gazole"] = <<0, 2, 2>>
    /\ carburants["SP95"] = <<0, 0, 1>>

-----------------------------------------------------------------------------
(* PoolSpec: the name-resolution step of parse_data (lines 55 to 59) on the
   station ids of a document *)

MaxIds == 3

PoolIdSet == {7, 12, 30}

RECURSIVE SeqsUpTo(_, _)
SeqsUpTo(A, n) ==
    IF n = 0 THEN {<<>>}
    ELSE LET shorter == SeqsUpTo(A, n - 1)
         IN  shorter \cup {Append(s, c) : s \in {t \in shorter : Len(t) = n - 1}, c \in A}

PoolInit ==
    /\ pool_ids \in SeqsUpTo(PoolIdSet, MaxIds)
    /\ futures = <<>>
    /\ responses = <<>>
    /\ pool_names = <<>>
    /\ pool_pc = "start"
    /\ CoordIdle /\ HeatIdle /\ ParseIdle

\* executor.map submits one work item per id, in order.
PoolSubmit ==
    /\ pool_pc = "start"
    /\ futures' = [k \in 1..Len(pool_ids) |-> [state |-> "pending", result |-> NoneVal]]
    /\ responses' = [k \in 1..Len(pool_ids) |-> NoneVal]
    /\ pool_pc' = "map"
    /\ UNCHANGED <<pool_ids, pool_names, coordVars, heatVars, parseVars>>

\* A worker thread takes the oldest work item of the queue and issues its
\* request.
WorkerTake ==
    /\ pool_pc = "map"
    /\ Pending(futures) # {}
    /\ worker_free(futures)
    /\ LET k == CHOOSE j \in Pending(futures) : \A m \in Pending(futures) : j <= m
       IN  futures' = [futures EXCEPT ![k].state = "running"]
    /\ UNCHANGED <<pool_ids, responses, pool_names, pool_pc, coordVars, heatVars, parseVars>>

\* The request of work item k settles, with a response or an exception, and
\* get_station_name returns into the item's future.
Respond(k) ==
    /\ pool_pc = "map"
    /\ futures[k].state = "running"
    /\ \E r \in ServerResponses(pool_ids[k]) :
          /\ responses' = [responses EXCEPT ![k] = r]
          /\ futures' = [futures EXCEPT ![k] = [state  |-> "finished",
                                                result |-> get_station_name(pool_ids[k], r)]]
    /\ UNCHANGED <<pool_ids, pool_names, pool_pc, coordVars, heatVars, parseVars>>

\* list(...) completes and the with block exits: station_names is assigned
\* and the assembly loop begins.
PoolReturn ==
    /\ pool_pc = "map"
    /\ all_done(futures)
    /\ pool_names' = map_results(futures)
    /\ pool_pc' = "assemble"
    /\ UNCHANGED <<pool_ids, futures, responses, coordVars, heatVars, parseVars>>

PoolNext ==
    \/ PoolSubmit
    \/ WorkerTake
    \/ \E k \in 1..Len(futures) : Respond(k)
    \/ PoolReturn

PoolSpec == PoolInit /\ [][PoolNext]_vars

\* Every thread that can run does run, and every request responds or errors.
FairPoolSpec == PoolSpec /\ WF_vars(PoolNext)

\* The request of work item k gave a name.
Succeeded(r) == ~IsError(r) /\ r.status_code = 200 /\ r.strongs # <<>>

\* C1: whatever the order in which the lookups completed, station_names
\* pairs each id with the result of that id's own request: the name the
\* service holds for it, or None when its request failed.
C1_OwnResult ==
    pool_pc = "assemble" =>
        /\ Len(pool_names) = Len(pool_ids)
        /\ \A k \in 1..Len(pool_ids) :
              /\ pool_names[k][1] = pool_ids[k]
              /\ pool_names[k][2] =
                    IF Succeeded(responses[k]) THEN ServerName(pool_ids[k]) ELSE NoneVal

\* Three distinct ids resolved, the middle one failing.
C1_Witness ==
    /\ pool_pc = "assemble"
    /\ pool_ids = <<30, 7, 12>>
    /\ pool_names = <<<<30, ServerName(30)>>, <<7, NoneVal>>, <<12, ServerName(12)>>>>

\* C8: never more than max_workers lookups are issued and unsettled.
C8_Bounded == Cardinality(Running(futures)) <= max_workers

\* The pool is full and a lookup waits for a slot.
C8_Witness == Cardinality(Running(futures)) = max_workers /\ Pending(futures) # {}

\* C9: station assembly begins only with every lookup settled and one result
\* per id, and it does begin once every request has responded or errored.
C9_ReturnsWhenSettled ==
    /\ [](pool_pc = "assemble" =>
            /\ \A k \in 1..Len(pool_ids) : futures[k].state = "finished"
            /\ Len(pool_names) = Len(pool_ids))
    /\ <>(pool_pc = "assemble")

\* The step returned although a lookup failed while others were in flight.
C9_Witness ==
    /\ pool_pc = "assemble"
    /\ Len(pool_ids) = MaxIds
    /\ IsError(responses[1])
    /\ Succeeded(responses[2])

-----------------------------------------------------------------------------
(* Spec: parse_data on a document of station records.  The call of the pool
   blocks the loop, so here it is one step; PoolSpec has its threads. *)

MaxRecords == 2

Lat46 == Str(<<"4", "6", "2", "0", "1", "0", "0">>)
Lon5  == Str(<<"5", "1", "9", "8", "0", "0">>)
Cp    == Str(<<"0", "1", "0", "0", "0">>)
Rue   == Elem(Str(<<"r", "u", "e">>))
Bourg == Elem(Str(<<"B", "o", "u", "r", "g">>))

Pdv(id, latitude, longitude, adresse, ville, horaires, prix) ==
    [id |-> Str(id), latitude |-> latitude, longitude |-> longitude, cp |-> Cp,
     adresse |-> adresse, ville |-> ville, horaires |-> horaires, prix |-> prix]

Horaires(automate, jours) == [k |-> "element", automate |-> automate, jours |-> jours]

\* <jour id ferme> with or without a child <ouverture>, and with its first
\* child <horaire ouverture fermeture> or None
Jour(id, ferme, ouverture, horaire) ==
    [id |-> Str(id), ferme |-> Str(ferme), ouverture |-> ouverture, horaire |-> horaire]

Horaire(ouverture, fermeture) == [k |-> "element", ouverture |-> Str(ouverture),
                                  fermeture |-> Str(fermeture)]

Prix(nom, valeur, maj) == [attrib |-> TRUE, nom |-> nom, valeur |-> Str(valeur), maj |-> maj]
PrixEmpty == [attrib |-> FALSE, nom |-> NoneVal, valeur |-> NoneVal, maj |-> NoneVal]

H0800 == Horaire(<<"0", "8", ".", "0", "0">>, <<"1", "9", ".", "3", "0">>)
H7    == Horaire(<<"7", ".", "5">>, <<"2", "3", ".", "5", "9">>)

Gazole15 == Prix("Gazole", <<"1", ".", "5">>, Stamp(1, 100))
Gazole17 == Prix("Gazole", <<"1", ".", "7", "0">>, Stamp(1, 200))
SP95_2   == Prix("SP95", <<"2">>, Stamp(2, 0))

\* as the dataset has them: the times on <horaire>, no <ouverture> child
OpenMarked == Horaires(TRUE, << Jour(<<"1">>, <<>>, FALSE, H0800),
                                Jour(<<"2">>, <<"1">>, FALSE, NoneVal) >>)
\* a day with both an <ouverture> child and an <horaire> child
OpenBoth   == Horaires(FALSE, << Jour(<<"3">>, <<>>, TRUE, H7) >>)

RecordShapes ==
    { \* well-formed records
      Pdv(<<"7">>, Lat46, Lon5, Rue, Bourg, OpenMarked, <<Gazole15, Gazole17>>),
      Pdv(<<"1", "2">>, Lat46, Lon5, Rue, Bourg, NoneVal, <<SP95_2, PrixEmpty>>),
      Pdv(<<"3", "0">>, Lat46, Lon5, Rue, Bourg, OpenBoth, <<>>),
      \* a mandatory field missing or undecodable
      Pdv(<<"8">>, Lat46, Lon5, NoneVal, Bourg, OpenMarked, <<Gazole15>>),
      Pdv(<<"9">>, Lat46, Lon5, Elem(NoneVal), Bourg, OpenBoth, <<Gazole15>>),
      Pdv(<<"1", "0">>, Str(<<"4", "a">>), Lon5, Rue, Bourg, OpenBoth, <<>>),
      Pdv(<<"1", "1">>, Lat46, NoneVal, Rue, NoneVal, NoneVal, <<>>),
      \* a malformed price or opening-hours field
      Pdv(<<"1", "3">>, Lat46, Lon5, Rue, Bourg, OpenBoth,
          <<Prix("Gazole", <<"1", ".", "5">>, Str(<<"2", "0", "2", "3">>))>>),
      Pdv(<<"1", "4">>, Lat46, Lon5, Rue, Bourg, OpenBoth,
          <<Prix("Gazole", <<"a">>, Stamp(1, 0))>>),
      Pdv(<<"1", "5">>, Lat46, Lon5, Rue, Bourg,
          Horaires(FALSE, << Jour(<<"1">>, <<>>, TRUE, NoneVal) >>), <<>>),
      Pdv(<<"1", "6">>, Lat46, Lon5, Rue, Bourg,
          Horaires(TRUE, << Jour(<<"a">>, <<"1">>, FALSE, NoneVal) >>), <<>>),
      Pdv(<<"1", "7">>, Lat46, Lon5, Rue, Bourg,
          Horaires(FALSE, << Jour(<<"4">>, <<>>, TRUE,
                                  Horaire(<<"0", "8", ".", "0", "0">>, <<"2", "4", ".", "0", "0">>)) >>),
          <<>>),
      \* an id that is no integer
      Pdv(<<"a">>, Lat46, Lon5, Rue, Bourg, NoneVal, <<>>) }

Init ==
    /\ doc \in SeqsUpTo(RecordShapes, MaxRecords)
    /\ pc = "start"
    /\ station_ids = <<>>
    /\ station_names = <<>>
    /\ idx = 0
    /\ always_open = Unbound
    /\ gas_stations = <<>>
    /\ count = 0
    /\ raised = NoneVal
    /\ CoordIdle /\ HeatIdle /\ PoolIdle

\* Lines 55 and 56.
ReadIds ==
    /\ pc = "start"
    /\ LET r == read_ids(doc, <<>>)
       IN  IF IsError(r)
           THEN /\ raised' = r
                /\ pc' = "raised"
                /\ UNCHANGED station_ids
           ELSE /\ station_ids' = r.ids
                /\ pc' = "resolve"
                /\ UNCHANGED raised
    /\ UNCHANGED <<doc, station_names, idx, always_open, gas_stations, count,
                   coordVars, heatVars, poolVars>>

\* Lines 58 and 59: every id's lookup settles, in some order, and the pool
\* returns the results.
ResolveNames ==
    /\ pc = "resolve"
    /\ \E rs \in [1..Len(station_ids) -> ResponseKinds] :
          station_names' =
              map_results([k \in 1..Len(station_ids) |->
                             [state  |-> "finished",
                              result |-> get_station_name(station_ids[k],
                                                          ServerResponse(station_ids[k], rs[k]))]])
    /\ idx' = 1
    /\ pc' = "assemble"
    /\ UNCHANGED <<doc, station_ids, always_open, gas_stations, count, raised,
                   coordVars, heatVars, poolVars>>

\* One iteration of the loop over zip(root, station_names).
AssembleStep ==
    /\ pc = "assemble"
    /\ idx <= Min(Len(doc), Len(station_names))
    /\ LET r == assemble(doc[idx], paired(station_names, idx, Len(gas_stations)), always_open)
       IN  /\ always_open' = r.always_open
           /\ CASE r.k = "dropped" ->
                     /\ idx' = idx + 1
                     /\ UNCHANGED <<gas_stations, count, raised, pc>>
                [] r.k = "raised" ->
                     /\ raised' = r.exc
                     /\ pc' = "raised"
                     /\ UNCHANGED <<gas_stations, count, idx>>
                [] r.k = "station" ->
                     /\ gas_stations' = Append(gas_stations, r.station)
                     /\ count' = count + 1
                     /\ idx' = idx + 1
                     \* if count > maxx: break
                     /\ pc' = IF count + 1 > maxx THEN "break" ELSE pc
                     /\ UNCHANGED raised
    /\ UNCHANGED <<doc, station_ids, station_names, coordVars, heatVars, poolVars>>

\* The loop is over and parse_data returns gas_stations.
Return ==
    /\ \/ pc = "assemble" /\ idx > Min(Len(doc), Len(station_names))
       \/ pc = "break"
    /\ pc' = "returned"
    /\ UNCHANGED <<doc, station_ids, station_names, idx, always_open, gas_stations,
                   count, raised, coordVars, heatVars, poolVars>>

Next == ReadIds \/ ResolveNames \/ AssembleStep \/ Return

Spec == Init /\ [][Next]_vars

-----------------------------------------------------------------------------
(* The claims about parse_data *)

Finished == pc \in {"returned", "raised"}

\* What parse_data hands to its caller: nothing when it raised.
Result == IF pc = "returned" THEN gas_stations ELSE <<>>

Decodes(a, n) == ~IsError(get_coordinate(a, n))

\* The record has its address and city nodes and both coordinates decode.
HasMandatory(pdv) ==
    /\ pdv.adresse # NoneVal
    /\ pdv.ville # NoneVal
    /\ Decodes(pdv.latitude, 2)
    /\ Decodes(pdv.longitude, 1)

\* The records the loop has been through, and those of them it kept.
Processed == IF pc \in {"assemble", "break", "returned", "raised"} THEN 1..(idx - 1) ELSE {}
KeptIdx   == {j \in Processed : HasMandatory(doc[j])}

\* The record of the m-th kept index: where the m-th station comes from.
Source(m) == CHOOSE j \in KeptIdx : Cardinality({i \in KeptIdx : i < j}) = m - 1

RecordId(pdv) == PyInt(pdv.id).n

\* parse_data on the document of this record alone returns its station.
AloneYields(pdv) ==
    /\ ~IsError(PyInt(pdv.id))
    /\ assemble(pdv, <<RecordId(pdv), NoneVal>>, Unbound).k = "station"

\* One of the failures C3 is about: a mandatory field, the opening hours or
\* a price of the record does not parse.
ListedFailure(pdv) ==
    \/ IsError(mandatory(pdv))
    \/ pdv.horaires # NoneVal /\ IsError(parse_days(pdv.horaires.jours, <<>>))
    \/ IsError(parse_prices(pdv.prix, <<>>))

\* C3: in a document whose records either yield their station on their own
\* or have a malformed field, every record of the first kind has its station
\* in the result of parse_data, whatever the lookups gave.
C3_Isolation ==
    (/\ Finished
     /\ \A j \in 1..Len(doc) : AloneYields(doc[j]) \/ ListedFailure(doc[j])) =>
        \A j \in 1..Len(doc) :
            AloneYields(doc[j]) =>
                \E m \in 1..Len(Result) : Result[m].id = RecordId(doc[j])

\* C4: a retained station whose record has no opening-hours block has no
\* opening hours and is_always_open = false, whatever came before it.
C4_NoBlockDefaults ==
    \A m \in 1..Len(gas_stations) :
        (m <= Cardinality(KeptIdx) /\ doc[Source(m)].horaires = NoneVal) =>
            /\ gas_stations[m].opening_hours = NoneVal
            /\ gas_stations[m].is_always_open = FALSE

\* C5: every retained station comes from a record with an address text, a
\* city text and two decodable coordinates, and there are no more stations
\* than records.
C5_DropsIncomplete ==
    /\ Len(gas_stations) <= Len(doc)
    /\ Len(gas_stations) = Cardinality(KeptIdx) =>
          \A m \in 1..Len(gas_stations) :
              LET pdv == doc[Source(m)]
              IN  /\ pdv.adresse # NoneVal /\ pdv.adresse.text # NoneVal
                  /\ pdv.ville # NoneVal /\ pdv.ville.text # NoneVal
                  /\ Decodes(pdv.latitude, 2)
                  /\ Decodes(pdv.longitude, 1)

\* C7: in a retained station, a day is closed exactly when its entry is
\* marked closed or has no opening/closing pair, and an open entry has the
\* range of its parsed times.
C7_DaySchedules ==
    \A m \in 1..Len(gas_stations) :
        (m <= Cardinality(KeptIdx) /\ doc[Source(m)].horaires # NoneVal) =>
            \A d \in 1..Len(doc[Source(m)].horaires.jours) :
                LET day    == doc[Source(m)].horaires.jours[d]
                    sched  == gas_stations[m].opening_hours.days[PyInt(day.id).n]
                    closed == day.ferme = Str(<<"1">>) \/ day.horaire = NoneVal
                IN  /\ sched = NoneVal <=> closed
                    /\ ~closed => sched = HoursRange(strptime_HM(day.horaire.ouverture),
                                                     strptime_HM(day.horaire.fermeture))

\* C10: the stations are those of the kept records, in document order, each
\* with the id of its own record and the name resolved for that id, however
\* many records were dropped before it.
C10_Paired ==
    /\ Len(gas_stations) = Cardinality(KeptIdx)
    /\ \A m \in 1..Len(gas_stations) :
          LET j == Source(m)
          IN  /\ gas_stations[m].id = RecordId(doc[j])
              /\ station_names[j][1] = RecordId(doc[j])
              /\ gas_stations[m].name = station_names[j][2]
              /\ gas_stations[m].name \in {NoneVal, ServerName(RecordId(doc[j]))}

\* A station kept after a dropped record whose own lookup gave a name.
C10_Witness ==
    /\ pc = "returned"
    /\ Len(doc) = 2
    /\ ~HasMandatory(doc[1])
    /\ station_names[1][2] # NoneVal
    /\ Len(gas_stations) = 1
    /\ gas_stations[1].id = 7
    /\ gas_stations[1].name = ServerName(7)

-----------------------------------------------------------------------------
(* The claim about get_coordinate *)

\* The part of the angle before its first decimal point.
IntegerPart == SplitFirst(angle.s, ".")

\* C6: get_coordinate returns a value only for an angle whose part before
\* the first decimal point is all digits, at least number_len of them.
C6_RejectsShortOrNonNumeric ==
    (coord # Unbound /\ ~IsError(coord)) =>
        /\ IsDigits(IntegerPart)
        /\ Len(IntegerPart) >= number_len

====
